---- MODULE Spec2Model ----
(***************************************************************************)
(* A model of mug.py: the characteristic decoders, the registry, the       *)
(* concurrent snapshot assembly get_mug and the poll loop of main.         *)
(*                                                                         *)
(* Temperatures are kept as integers in thousandths of a degree, so that   *)
(* c = raw * 0.01 is 10 * raw and f = c * 1.8 + 32 is (c * 18) / 10 +      *)
(* 32000 without rounding.                                                 *)
(***************************************************************************)
EXTENDS Integers, Sequences, FiniteSets, TLC

(***************************************************************************)
(* Bounds of the model.                                                    *)
(***************************************************************************)
\* number of iterations of the while loop of main that are explored
MaxCycles == 2
\* number of snapshots fed to the loop when get_mug is taken as one step
MaxFed == 5
\* longest byte string handed to a decoder on its own
MaxLen == 4
\* number of tasks of one get_mug that fail
MaxFailures == 1

Byte == 0 .. 255

(***************************************************************************)
(* Python values.  A call either returns a value or raises: Return(v) and  *)
(* Raised(e) are the two outcomes of a call.                               *)
(***************************************************************************)
None == [none |-> TRUE]

Return(v) == [ok |-> TRUE, val |-> v]

Raised(e) == [ok |-> FALSE, exc |-> e]

IsRaised(r) == ~r.ok

\* the status the interpreter ends with
ExitStatus(code) == [code |-> code]

(***************************************************************************)
(* Codecs.                                                                 *)
(***************************************************************************)
\* struct.unpack("<H", data)[0]: the unsigned reading of the two bytes
read_uint16_unsigned(data) ==
    IF Len(data) # 2 THEN Raised("struct.error")
    ELSE Return(data[1] + 256 * data[2])

\* struct.unpack("<h", data)[0]
read_uint16(data) ==
    IF Len(data) # 2 THEN Raised("struct.error")
    ELSE LET u == data[1] + 256 * data[2]
         IN  Return(IF u >= 32768 THEN u - 65536 ELSE u)

c_to_f(c) == ((c * 18) \div 10) + 32000

Temp(c, f) == [c |-> c, f |-> f]

read_temp(data) ==
    LET r == read_uint16(data)
    IN  IF IsRaised(r) THEN r
        ELSE LET c == r.val * 10 IN Return(Temp(c, c_to_f(c)))

CurrentTemp(temp) == [temp |-> temp]

decode_current_temp(data) ==
    LET t == read_temp(data)
    IN  IF IsRaised(t) THEN t ELSE Return(CurrentTemp(t.val))

TargetTemp(temp) == [temp |-> temp]

decode_target_temp(data) ==
    LET t == read_temp(data)
    IN  IF IsRaised(t) THEN t ELSE Return(TargetTemp(t.val))

LiquidLevel(level) == [level |-> level]

decode_liquid_level(data) ==
    IF Len(data) < 1 THEN Raised("IndexError")
    ELSE Return(LiquidLevel(data[1]))

Battery(percent, charging) == [percent |-> percent, charging |-> charging]

decode_battery(data) ==
    IF Len(data) < 2 THEN Raised("IndexError")
    ELSE Return(Battery(data[1], data[2] # 0))

\* an IntEnum member
Member(name, value) == [name |-> name, value |-> value]

\* class LiquidState(IntEnum)
LiquidState ==
    {Member("Empty", 1), Member("Filling", 2), Member("Unknown", 3),
     Member("Cooling", 4), Member("Heating", 5), Member("Stable", 6)}

\* EnumClass(value): the member of that value, ValueError when there is none
EnumCall(EnumClass, value) ==
    IF \E m \in EnumClass : m.value = value
    THEN Return(CHOOSE m \in EnumClass : m.value = value)
    ELSE Raised("ValueError")

\* a variant of the decoder that maps an unknown byte to Unknown
decode_liquid_state_default(data) ==
    IF Len(data) < 1 THEN Raised("IndexError")
    ELSE IF EnumCall(LiquidState, data[1]).ok
         THEN EnumCall(LiquidState, data[1])
         ELSE Return(Member("Unknown", 3))

decode_liquid_state(data) ==
    IF Len(data) < 1 THEN Raised("IndexError")
    ELSE EnumCall(LiquidState, data[1])

MugColor(r, g, b, a) == [r |-> r, g |-> g, b |-> b, a |-> a]

decode_mug_color(data) ==
    IF Len(data) < 4 THEN Raised("IndexError")
    ELSE Return(MugColor(data[1], data[2], data[3], data[4]))

MugName(name) == [name |-> name]

decode_mug_name(data) ==
    IF \E i \in 1 .. Len(data) : data[i] > 127
    THEN Raised("UnicodeDecodeError")
    ELSE Return(MugName(data))

\* class TempUnit(IntEnum)
TempUnit == {Member("C", 0), Member("F", 1)}

decode_temp_unit(data) ==
    IF Len(data) < 1 THEN Raised("IndexError")
    ELSE EnumCall(TempUnit, data[1])

(***************************************************************************)
(* The registry.                                                           *)
(***************************************************************************)
\* the keys in the order get_mug reads them, which is the order of the
\* fields of Mug
KEYS ==
    <<"mug-name", "current-temp", "target-temp", "temp-unit",
      "liquid-level", "battery", "liquid-state", "mug-color">>

NKeys == Len(KEYS)

Keys == {KEYS[i] : i \in 1 .. NKeys}

\* the last four hex digits of the first group of the uuid tell the
\* identifiers apart: fc54XXXX-236c-4c94-8fa9-944a3e5353fa
CHARACTERISTICS ==
    [k \in Keys |->
        CASE k = "mug-name"     -> [uuid |-> "0001", decoder |-> "decode_mug_name"]
          [] k = "current-temp" -> [uuid |-> "0002", decoder |-> "decode_current_temp"]
          [] k = "target-temp"  -> [uuid |-> "0003", decoder |-> "decode_target_temp"]
          [] k = "temp-unit"    -> [uuid |-> "0004", decoder |-> "decode_temp_unit"]
          [] k = "liquid-level" -> [uuid |-> "0005", decoder |-> "decode_liquid_level"]
          [] k = "battery"      -> [uuid |-> "0007", decoder |-> "decode_battery"]
          [] k = "liquid-state" -> [uuid |-> "0008", decoder |-> "decode_liquid_state"]
          [] k = "mug-color"    -> [uuid |-> "0014", decoder |-> "decode_mug_color"]]

\* calling the decoder object found in the registry
Apply(decoder, data) ==
    CASE decoder = "decode_mug_name"     -> decode_mug_name(data)
      [] decoder = "decode_current_temp" -> decode_current_temp(data)
      [] decoder = "decode_target_temp"  -> decode_target_temp(data)
      [] decoder = "decode_temp_unit"    -> decode_temp_unit(data)
      [] decoder = "decode_liquid_level" -> decode_liquid_level(data)
      [] decoder = "decode_battery"      -> decode_battery(data)
      [] decoder = "decode_liquid_state" -> decode_liquid_state(data)
      [] decoder = "decode_mug_color"    -> decode_mug_color(data)

\* the synchronous tail of read_char: decoder(<bytes read from uuid>)
read_char_decode(k, data) == Apply(CHARACTERISTICS[k].decoder, data)

(***************************************************************************)
(* The transport.  Wire(uuid) is the set of payloads the device may answer *)
(* a read of uuid with; some of them are payloads that the decoder of the  *)
(* uuid rejects.                                                           *)
(***************************************************************************)
Wire(uuid) ==
    CASE uuid = "0001" -> {<<69>>}                     \* "E"
      [] uuid = "0002" -> {<<208, 7>>, <<208>>}        \* 20.00 C; one byte
      [] uuid = "0003" -> {<<124, 21>>}                \* 55.00 C
      [] uuid = "0004" -> {<<1>>, <<2>>}               \* F; no such unit
      [] uuid = "0005" -> {<<30>>}
      [] uuid = "0007" -> {<<50, 1>>}
      [] uuid = "0008" -> {<<5>>, <<2>>, <<7>>}        \* Heating, Filling; no such state
      [] uuid = "0014" -> {<<255, 255, 255, 255>>}

(***************************************************************************)
(* The state of the program.                                               *)
(***************************************************************************)
VARIABLES
    pc,          \* where main is
    connected,   \* the BleakClient of line 25 is connected
    exit_status, \* the exit status of the process, None while it runs
    cycle,       \* 0 for the get_mug of line 26, n for the n-th of line 44
    bodies,      \* how many snapshots main has finished processing
    task_st,     \* the eight tasks of the current get_mug
    raw,         \* the payload the read of each key returned
    attrs,       \* the outcome of each task
    inflight,    \* the reads the transport has been given and not answered
    overtaken,   \* some task finished before one created earlier
    issued,      \* the uuids the current get_mug has read, in order
    interrupted, \* a KeyboardInterrupt has reached asyncio.run
    mug,         \* the local mug of main
    state,       \* the local state of main
    temp_unit,   \* the local temp_unit of main
    progress,    \* the two progress bars
    log,         \* what console.log was given, line by line
    fed,         \* the liquid_state of each snapshot the loop got
    dec_key,     \* a registry key, for the codecs taken on their own
    dec_in,      \* the bytes handed to its decoder
    dec_out      \* what the decoder gave

vars ==
    <<pc, connected, exit_status, cycle, bodies, task_st, raw, attrs,
      inflight, overtaken, issued, interrupted, mug, state, temp_unit,
      progress, log, fed, dec_key, dec_in, dec_out>>

mainVars == <<mug, state, temp_unit, progress, log, fed, bodies>>

taskVars == <<task_st, raw, attrs, inflight, overtaken, issued>>

decVars == <<dec_key, dec_in, dec_out>>

Tasks == 1 .. NKeys

\* the outcome of a task that has not finished
Pending == Raised("pending")

\* class Mug: the dataclass takes its fields positionally
Mug(a) ==
    [name |-> a[1], current_temp |-> a[2], target_temp |-> a[3],
     temp_unit |-> a[4], liquid_level |-> a[5], battery |-> a[6],
     liquid_state |-> a[7], color |-> a[8]]

InitMain ==
    /\ pc = "find_device"
    /\ connected = FALSE
    /\ exit_status = None
    /\ cycle = 0
    /\ bodies = 0
    /\ task_st = [i \in Tasks |-> "none"]
    /\ raw = [k \in Keys |-> <<>>]
    /\ attrs = [i \in Tasks |-> Pending]
    /\ inflight = {}
    /\ overtaken = FALSE
    /\ issued = <<>>
    /\ interrupted = FALSE
    /\ mug = None
    /\ state = None
    /\ temp_unit = None
    /\ progress = None
    /\ log = <<>>
    /\ fed = <<>>

Init ==
    /\ InitMain
    /\ dec_key = None
    /\ dec_in = <<>>
    /\ dec_out = Pending

(***************************************************************************)
(* main, up to the first get_mug.                                          *)
(***************************************************************************)
\* a variant that logs "not found" and goes on to connect
FindDeviceNoExit ==
    /\ pc = "find_device"
    /\ \E found \in BOOLEAN :
          IF found
          THEN UNCHANGED log
          ELSE log' = Append(log, [kind |-> "not found"])
    /\ pc' = "connect"
    /\ UNCHANGED <<connected, exit_status, cycle, mug, state, temp_unit,
                   progress, fed, bodies, taskVars, decVars, interrupted>>

\* lines 18-23: the scan finds the mug or it does not
FindDevice ==
    /\ pc = "find_device"
    /\ \E found \in BOOLEAN :
          IF found
          THEN /\ pc' = "connect"
               /\ UNCHANGED <<exit_status, log>>
          ELSE /\ log' = Append(log, [kind |-> "not found"])
               /\ exit_status' = ExitStatus(1)
               /\ pc' = "exited"
    /\ UNCHANGED <<connected, cycle, mug, state, temp_unit, progress, fed,
                   bodies, taskVars, decVars, interrupted>>

\* line 25: async with BleakClient(device) as client
Connect ==
    /\ pc = "connect"
    /\ connected' = TRUE
    /\ pc' = "get_mug"
    /\ UNCHANGED <<exit_status, cycle, mainVars, taskVars, decVars, interrupted>>

(***************************************************************************)
(* get_mug and read_char.                                                  *)
(***************************************************************************)
\* lines 190-204: the list comprehension creates the eight tasks, then
\* gather is awaited
GetMug ==
    /\ pc = "get_mug"
    /\ task_st' = [i \in Tasks |-> "created"]
    /\ raw' = [k \in Keys |-> <<>>]
    /\ attrs' = [i \in Tasks |-> Pending]
    /\ overtaken' = FALSE
    /\ issued' = <<>>
    /\ pc' = "gather"
    /\ UNCHANGED <<connected, exit_status, cycle, inflight, mainVars, decVars, interrupted>>

\* a variant in which a read is started only when the reads before it are
\* over
CanStartSerial(i) ==
    /\ task_st[i] = "created"
    /\ \A j \in 1 .. i - 1 : task_st[j] \in {"done", "failed"}

\* the event loop runs the first step of the tasks in the order of their
\* creation
CanStart(i) ==
    /\ task_st[i] = "created"
    /\ \A j \in 1 .. i - 1 : task_st[j] # "created"

\* a variant in which every task reads the uuid of the first key
ReadUuidFirst(i) == CHARACTERISTICS[KEYS[1]].uuid

\* line 75: the uuid task i reads, the one registered for its key
ReadUuid(i) == CHARACTERISTICS[KEYS[i]].uuid

\* lines 75-76: the first step of task i, up to the await of the read
ReadCharStart(i) ==
    /\ pc \in {"gather", "unwind"}
    /\ CanStart(i)
    /\ task_st' = [task_st EXCEPT ![i] = "reading"]
    /\ inflight' = inflight \cup {<<cycle, ReadUuid(i)>>}
    /\ issued' = Append(issued, ReadUuid(i))
    /\ UNCHANGED <<pc, connected, exit_status, cycle, raw, attrs, overtaken,
                   mainVars, decVars, interrupted>>

\* a variant of gather that hands the results back in the order in which
\* the tasks finished
StoreByCompletion(a, i, r) ==
    LET free == {j \in Tasks : a[j] = Pending}
        slot == CHOOSE j \in free : \A l \in free : j <= l
    IN  [a EXCEPT ![slot] = r]

\* gather keeps the result of the i-th awaitable at position i
Store(a, i, r) == [a EXCEPT ![i] = r]

\* the tasks of the current get_mug that have raised
Failed == {i \in Tasks : task_st[i] = "failed"}

\* line 76: the read of task i returns data, the decoder is applied
ReadCharReturn(i) ==
    /\ pc \in {"gather", "unwind"}
    /\ task_st[i] = "reading"
    /\ \E data \in Wire(ReadUuid(i)) :
          LET r == read_char_decode(KEYS[i], data)
          IN  /\ IsRaised(r) => Cardinality(Failed) < MaxFailures
              /\ raw' = [raw EXCEPT ![KEYS[i]] = data]
              /\ attrs' = Store(attrs, i, r)
              /\ task_st' = [task_st EXCEPT
                                ![i] = IF IsRaised(r) THEN "failed" ELSE "done"]
    /\ inflight' = inflight \ {<<cycle, ReadUuid(i)>>}
    /\ overtaken' = (overtaken \/ \E j \in 1 .. i - 1 : task_st[j] = "reading")
    /\ UNCHANGED <<pc, connected, exit_status, cycle, issued, mainVars, decVars,
                   interrupted>>

\* line 76: the read of task i raises (disconnect, timeout)
ReadCharError(i) ==
    /\ pc \in {"gather", "unwind"}
    /\ task_st[i] = "reading"
    /\ Cardinality(Failed) < MaxFailures
    /\ attrs' = Store(attrs, i, Raised("BleakError"))
    /\ task_st' = [task_st EXCEPT ![i] = "failed"]
    /\ inflight' = inflight \ {<<cycle, ReadUuid(i)>>}
    /\ UNCHANGED <<pc, connected, exit_status, cycle, raw, overtaken, issued,
                   mainVars, decVars, interrupted>>

\* a variant of gather that returns once one task has returned
GatherReadyFirst == \E i \in Tasks : task_st[i] = "done"

\* a variant of gather that waits for the tasks and hands back outcomes,
\* exceptions among them
GatherReadyAnyOutcome == \A i \in Tasks : task_st[i] \in {"done", "failed"}

\* gather returns its list when every awaitable has returned
GatherReady == \A i \in Tasks : task_st[i] = "done"

\* gather raises as soon as one awaitable has raised
GatherFailed == \E i \in Tasks : task_st[i] = "failed"

\* what gather hands back for an awaitable: its value, or the exception
\* object where the variant above is in force
Outcome(r) == IF r.ok THEN r.val ELSE [exception |-> r.exc]

\* lines 190 and 205, and the assignment of lines 26 and 44
GetMugReturn ==
    /\ pc = "gather"
    /\ GatherReady
    /\ mug' = Mug([i \in Tasks |-> Outcome(attrs[i])])
    /\ pc' = IF cycle = 0 THEN "setup" ELSE "body"
    /\ UNCHANGED <<connected, exit_status, cycle, state, temp_unit, progress,
                   log, fed, bodies, taskVars, decVars, interrupted>>

\* a variant of main that catches the exception and polls again
GetMugRaiseRetry ==
    /\ pc = "gather"
    /\ GatherFailed
    /\ pc' = "get_mug"
    /\ UNCHANGED <<connected, exit_status, cycle, mainVars, taskVars, decVars, interrupted>>

\* line 190 raises in get_mug, and lines 26 and 44 raise in main: the
\* exception leaves the with blocks
GetMugRaise ==
    /\ pc = "gather"
    /\ GatherFailed
    /\ pc' = "unwind"
    /\ UNCHANGED <<connected, exit_status, cycle, mainVars, taskVars, decVars, interrupted>>

\* the tasks that are not over are cancelled
Cancel(st) ==
    [i \in Tasks |-> IF st[i] \in {"created", "reading"} THEN "cancelled" ELSE st[i]]

\* line 25: __aexit__ of BleakClient disconnects
Release ==
    /\ pc = "unwind"
    /\ connected' = FALSE
    /\ pc' = "shutdown"
    /\ UNCHANGED <<exit_status, cycle, mainVars, taskVars, decVars, interrupted>>

\* a variant in which the interrupt ends main without leaving the
\* async with block
InterruptNoRelease(places) ==
    /\ pc \in places
    /\ ~interrupted
    /\ interrupted' = TRUE
    /\ task_st' = Cancel(task_st)
    /\ inflight' = {}
    /\ pc' = "shutdown"
    /\ UNCHANGED <<connected, exit_status, cycle, raw, attrs, overtaken, issued,
                   mainVars, decVars>>

\* a KeyboardInterrupt while main is suspended at one of places: main is
\* cancelled at its await and the exception leaves the with blocks of
\* lines 25 and 31; before line 25 there is no block to leave.  Cancelling
\* main at line 190 cancels gather, which cancels the tasks it waits for
\* and hands main the cancellation only when they are over.
InterruptAt(places) ==
    /\ pc \in places
    /\ ~interrupted
    /\ interrupted' = TRUE
    /\ task_st' = Cancel(task_st)
    /\ inflight' = {}
    /\ pc' = IF pc = "find_device" THEN "shutdown" ELSE "unwind"
    /\ UNCHANGED <<connected, exit_status, cycle, raw, attrs, overtaken, issued,
                   mainVars, decVars>>

\* the awaits of lines 18, 190 and 71
Interrupt == InterruptAt({"find_device", "gather", "sleep"})

\* lines 258-261: asyncio.run cancels the tasks that are left and re-raises;
\* a KeyboardInterrupt is caught and the interpreter exits with 0, any
\* other exception ends it with 1
Shutdown ==
    /\ pc = "shutdown"
    /\ task_st' = Cancel(task_st)
    /\ inflight' = {}
    /\ exit_status' = ExitStatus(IF interrupted THEN 0 ELSE 1)
    /\ pc' = "exited"
    /\ UNCHANGED <<connected, cycle, raw, attrs, overtaken, issued, mainVars,
                   decVars, interrupted>>

(***************************************************************************)
(* main, after a snapshot has been assembled.                              *)
(***************************************************************************)
\* lines 46-53: the projection uses the local temp_unit of main
Completed(m, unit) ==
    IF unit = Member("C", 0)
    THEN m.current_temp.temp.c
    ELSE m.current_temp.temp.f

\* lines 38-40
TempTotal(m, unit) ==
    IF unit = Member("F", 1)
    THEN m.target_temp.temp.f
    ELSE m.target_temp.temp.c

\* a variant of lines 27-42 that records the state of the snapshot read
\* before the loop
SetupRecording ==
    /\ pc = "setup"
    /\ log' = Append(log, [kind |-> "mug", mug |-> mug])
    /\ state' = mug.liquid_state
    /\ temp_unit' = mug.temp_unit
    /\ progress' = [temp_total |-> TempTotal(mug, mug.temp_unit),
                    temp_completed |-> 0,
                    battery_total |-> 100,
                    battery_completed |-> 0]
    /\ bodies' = bodies + 1
    /\ cycle' = cycle + 1
    /\ pc' = "get_mug"
    /\ UNCHANGED <<connected, exit_status, mug, fed, taskVars, decVars, interrupted>>

\* lines 27-42, up to the first await of the loop
Setup ==
    /\ pc = "setup"
    /\ log' = Append(log, [kind |-> "mug", mug |-> mug])
    /\ state' = None
    /\ temp_unit' = mug.temp_unit
    /\ progress' = [temp_total |-> TempTotal(mug, mug.temp_unit),
                    temp_completed |-> 0,
                    battery_total |-> 100,
                    battery_completed |-> 0]
    /\ bodies' = bodies + 1
    /\ cycle' = cycle + 1
    /\ pc' = "get_mug"
    /\ UNCHANGED <<connected, exit_status, mug, fed, taskVars, decVars, interrupted>>

\* a variant of lines 57-59 that leaves state as it was
NextStateStale(old, m) == old

\* lines 57-59: the state main keeps
NextState(old, m) == IF old # m.liquid_state THEN m.liquid_state ELSE old

\* a variant of lines 57-58 that logs the line in every iteration
TransitionLinesAlways(old, m) ==
    <<[kind |-> "transition", old |-> old, new |-> m.liquid_state]>>

\* lines 57-58: the line logged when the state has changed
TransitionLines(old, m) ==
    IF old # m.liquid_state
    THEN <<[kind |-> "transition", old |-> old, new |-> m.liquid_state]>>
    ELSE <<>>

\* a variant of lines 60-70 with a case for Filling that passes
DispatchLinesFillingPasses(m) ==
    IF m.liquid_state \in {Member("Empty", 1), Member("Heating", 5),
                           Member("Cooling", 4), Member("Stable", 6),
                           Member("Filling", 2)}
    THEN <<>>
    ELSE <<[kind |-> "mug", mug |-> m]>>

\* lines 60-70
DispatchLines(m) ==
    IF m.liquid_state \in {Member("Empty", 1), Member("Heating", 5),
                           Member("Cooling", 4), Member("Stable", 6)}
    THEN <<>>
    ELSE <<[kind |-> "mug", mug |-> m]>>

\* lines 46-70
Body ==
    /\ pc = "body"
    /\ progress' = [progress EXCEPT
                       !.temp_completed = Completed(mug, temp_unit),
                       !.battery_completed = mug.battery.percent]
    /\ log' = log \o TransitionLines(state, mug) \o DispatchLines(mug)
    /\ state' = NextState(state, mug)
    /\ fed' = Append(fed, mug.liquid_state)
    /\ bodies' = bodies + 1
    /\ pc' = "sleep"
    /\ UNCHANGED <<connected, exit_status, cycle, mug, temp_unit, taskVars,
                   decVars, interrupted>>

\* a variant of the loop that goes on only while the mug is not filling
SleepWhileNotFilling(max) ==
    /\ pc = "sleep"
    /\ cycle < max
    /\ state # Member("Filling", 2)
    /\ cycle' = cycle + 1
    /\ pc' = "get_mug"
    /\ UNCHANGED <<connected, exit_status, mainVars, taskVars, decVars, interrupted>>

\* line 71 and the jump back to line 44, for at most max iterations
SleepUpTo(max) ==
    /\ pc = "sleep"
    /\ cycle < max
    /\ cycle' = cycle + 1
    /\ pc' = "get_mug"
    /\ UNCHANGED <<connected, exit_status, mainVars, taskVars, decVars, interrupted>>

Sleep == SleepUpTo(MaxCycles)

\* the first step of get_mug and the end of the sleep are not put off for
\* ever
Fairness == WF_vars(GetMug) /\ WF_vars(Sleep)

Next ==
    \/ FindDevice
    \/ Connect
    \/ GetMug
    \/ \E i \in Tasks : ReadCharStart(i)
    \/ \E i \in Tasks : ReadCharReturn(i)
    \/ \E i \in Tasks : ReadCharError(i)
    \/ GetMugReturn
    \/ GetMugRaise
    \/ Release
    \/ Shutdown
    \/ Setup
    \/ Body
    \/ Sleep
    \/ Interrupt

Spec == Init /\ [][Next]_vars

SpecFair == Init /\ [][Next]_vars /\ Fairness

(***************************************************************************)
(* The poll loop fed with snapshots: get_mug taken as one step that hands  *)
(* main a snapshot or raises.  This is main with the assembly of get_mug   *)
(* folded into the await of lines 26 and 44, to follow the loop over more  *)
(* iterations and more kinds of snapshot than the tasks allow.             *)
(***************************************************************************)
\* the payloads behind the snapshots that are fed
FedWire(uuid) ==
    CASE uuid = "0001" -> {<<69>>}
      [] uuid = "0002" -> {<<208, 7>>, <<24, 252>>}    \* 20.00 C, -10.00 C
      [] uuid = "0003" -> {<<208, 7>>, <<124, 21>>}    \* 20.00 C, 55.00 C
      [] uuid = "0004" -> {<<0>>, <<1>>}               \* C, F
      [] uuid = "0005" -> {<<30>>}
      [] uuid = "0007" -> {<<50, 1>>}
      [] uuid = "0008" -> {<<5>>, <<6>>, <<4>>}        \* Heating, Stable, Cooling
      [] uuid = "0014" -> {<<255, 255, 255, 255>>}

\* what the task of key KEYS[i] hands gather when its read returns data
Decoded(i, data) == Outcome(read_char_decode(KEYS[i], data))

FedAnswers(i) == FedWire(CHARACTERISTICS[KEYS[i]].uuid)

\* the snapshots get_mug assembles from those payloads
Snapshots ==
    {Mug(<<Decoded(1, a1), Decoded(2, a2), Decoded(3, a3), Decoded(4, a4),
           Decoded(5, a5), Decoded(6, a6), Decoded(7, a7), Decoded(8, a8)>>) :
        a1 \in FedAnswers(1), a2 \in FedAnswers(2), a3 \in FedAnswers(3),
        a4 \in FedAnswers(4), a5 \in FedAnswers(5), a6 \in FedAnswers(6),
        a7 \in FedAnswers(7), a8 \in FedAnswers(8)}

\* lines 26 and 44 when get_mug returns m
Feed ==
    /\ pc = "get_mug"
    /\ \E m \in Snapshots : mug' = m
    /\ pc' = IF cycle = 0 THEN "setup" ELSE "body"
    /\ UNCHANGED <<connected, exit_status, cycle, state, temp_unit, progress,
                   log, fed, bodies, taskVars, decVars, interrupted>>

\* lines 26 and 44 when get_mug raises
FeedRaise ==
    /\ pc = "get_mug"
    /\ pc' = "unwind"
    /\ UNCHANGED <<connected, exit_status, cycle, mainVars, taskVars, decVars, interrupted>>

SleepFed == SleepUpTo(MaxFed)

\* the awaits of lines 18, 26, 44 and 71
InterruptFed == InterruptAt({"find_device", "get_mug", "sleep"})

NextLoop ==
    \/ FindDevice
    \/ Connect
    \/ Feed
    \/ FeedRaise
    \/ Release
    \/ Shutdown
    \/ Setup
    \/ Body
    \/ SleepFed
    \/ InterruptFed

SpecLoop == Init /\ [][NextLoop]_vars

(***************************************************************************)
(* The codecs on their own: a key of the registry and a byte string are    *)
(* drawn, and the decoder registered under the key is applied.             *)
(***************************************************************************)
\* the bytes the longer inputs are made of
SampleBytes == {0, 1, 2, 6, 7, 65, 128, 255}

SeqsOver(S, n) == [1 .. n -> S]

\* every input of one or two bytes for the two-byte characteristics, and
\* the inputs of up to MaxLen sample bytes for all of them
DecodeInputs(k) ==
    (UNION {SeqsOver(SampleBytes, n) : n \in 0 .. MaxLen})
    \cup (IF k \in {"current-temp", "target-temp", "battery"}
          THEN SeqsOver(Byte, 1) \cup SeqsOver(Byte, 2)
          ELSE {})

InitDecode ==
    /\ InitMain
    /\ dec_key \in Keys
    /\ dec_in \in DecodeInputs(dec_key)
    /\ dec_out = Pending

\* line 76: decoder(data)
DecodeStep ==
    /\ dec_out = Pending
    /\ dec_key \in Keys
    /\ dec_out' = read_char_decode(dec_key, dec_in)
    /\ UNCHANGED <<pc, connected, exit_status, cycle, mainVars, taskVars,
                   dec_key, dec_in, interrupted>>

NextDecode == DecodeStep

SpecDecode == InitDecode /\ [][NextDecode]_vars

(***************************************************************************)
(* Properties of the snapshot assembly, under Spec.                        *)
(***************************************************************************)
Returned == pc \in {"setup", "body"}

\* C1: get_mug hands main a Mug only when all eight tasks have returned a
\* decoded value, and then the Mug is made of those eight values; once a
\* task of the assembly has raised, main never gets a Mug from it.
C1_AllOrNothing ==
    /\ Returned =>
          /\ \A i \in Tasks : task_st[i] = "done" /\ attrs[i].ok
          /\ mug = Mug([i \in Tasks |-> attrs[i].val])
    /\ Failed # {} => pc \in {"gather", "unwind", "shutdown", "exited"}

\* a read has raised while others of the same assembly had returned, and
\* the assembly has failed
C1_Witness ==
    /\ pc = "unwind"
    /\ Failed # {}
    /\ \E i \in Tasks : task_st[i] = "done"
    /\ \E i \in Tasks : task_st[i] = "reading"

\* C3: whatever the order in which the reads complete, the result gather
\* holds for a task is the decoded answer to the read of that task's key,
\* and each field of the returned Mug is the decoded answer to the read of
\* the key of that field.
C3_FieldMapping ==
    /\ \A i \in Tasks :
          task_st[i] = "done" => attrs[i] = read_char_decode(KEYS[i], raw[KEYS[i]])
    /\ Returned =>
          /\ mug.name = decode_mug_name(raw["mug-name"]).val
          /\ mug.current_temp = decode_current_temp(raw["current-temp"]).val
          /\ mug.target_temp = decode_target_temp(raw["target-temp"]).val
          /\ mug.temp_unit = decode_temp_unit(raw["temp-unit"]).val
          /\ mug.liquid_level = decode_liquid_level(raw["liquid-level"]).val
          /\ mug.battery = decode_battery(raw["battery"]).val
          /\ mug.liquid_state = decode_liquid_state(raw["liquid-state"]).val
          /\ mug.color = decode_mug_color(raw["mug-color"]).val

\* a Mug has been returned from reads that did not complete in the order
\* of their creation
C3_Witness == Returned /\ overtaken

\* C4: once a task has raised, no new assembly is started, the progress
\* bars and the log stay as they are, and the failure stays.
C4_FailuresFatal ==
    [][Failed # {} =>
          /\ Failed' # {}
          /\ cycle' = cycle
          /\ pc' \in {"gather", "unwind", "shutdown", "exited"}
          /\ progress' = progress
          /\ log' = log
          /\ bodies' = bodies]_vars

\* a failure in an iteration of the loop has ended the program
C4_Witness ==
    /\ pc = "exited"
    /\ Failed # {}
    /\ cycle >= 1
    /\ bodies = cycle
    /\ exit_status = ExitStatus(1)

\* C7: the reads the transport holds are reads of the current assembly,
\* issued after main has finished with every earlier snapshot, and none is
\* held while main processes a snapshot, sleeps or starts an assembly.
C7_NoOverlap ==
    /\ \A r \in inflight : r[1] = cycle /\ bodies = cycle
    /\ pc \in {"get_mug", "setup", "body", "sleep"} => inflight = {}

\* reads of the second iteration are outstanding
C7_Witness ==
    /\ pc = "gather"
    /\ cycle = 2
    /\ bodies = 2
    /\ Cardinality(inflight) >= 2

\* C8: when gather is awaited the eight tasks exist, and the next task to
\* start can start whatever the state of the reads started before it.
C8_FanOut ==
    pc = "gather" =>
        /\ \A i \in Tasks : task_st[i] # "none"
        /\ \A i \in Tasks :
              (task_st[i] = "created" /\ \A j \in 1 .. i - 1 : task_st[j] # "created")
                  => ENABLED ReadCharStart(i)

\* the eight reads are outstanding together
C8_Witness == pc = "gather" /\ Cardinality(inflight) = NKeys

(***************************************************************************)
(* Properties of the poll loop, under SpecLoop.                            *)
(***************************************************************************)
IsTransition(e) == e.kind = "transition"

\* the transition lines logged so far
Events == SelectSeq(log, IsTransition)

Transition(old, new) == [kind |-> "transition", old |-> old, new |-> new]

\* the transitions between the neighbours of a sequence of states
RECURSIVE Changes(_)
Changes(s) ==
    IF Len(s) < 2 THEN <<>>
    ELSE LET front == SubSeq(s, 1, Len(s) - 1)
         IN  IF s[Len(s) - 1] # s[Len(s)]
             THEN Append(Changes(front), Transition(s[Len(s) - 1], s[Len(s)]))
             ELSE Changes(front)

Heating == Member("Heating", 5)

Stable == Member("Stable", 6)

Cooling == Member("Cooling", 4)

\* C2 as stated: a transition is logged exactly in the iterations whose
\* snapshot differs in liquid_state from the snapshot before it, so that
\* Heating, Heating, Stable, Stable, Cooling gives two transitions.
C2_ChangesOnly == Events = Changes(fed)

\* C2, amended: a transition is logged in the first iteration, from None,
\* and after that exactly in the iterations whose snapshot differs in
\* liquid_state from the snapshot of the iteration before.
C2_ChangesAndFirst == Events = Changes(<<None>> \o fed)

\* the loop has been fed Heating, Heating, Stable, Stable, Cooling and has
\* logged three transitions
C2_Witness ==
    /\ fed = <<Heating, Heating, Stable, Stable, Cooling>>
    /\ Events = <<Transition(None, Heating), Transition(Heating, Stable),
                  Transition(Stable, Cooling)>>

\* C5: after each iteration the temperature bar shows the component of
\* the snapshot's current_temp that the snapshot's own temp_unit selects.
C5_UnitOfSnapshot ==
    pc = "sleep" =>
        progress.temp_completed =
            (IF mug.temp_unit = Member("C", 0)
             THEN mug.current_temp.temp.c
             ELSE mug.current_temp.temp.f)

\* C6: after each iteration the total of the temperature bar is the
\* snapshot's target_temp in the snapshot's own temp_unit.
C6_TotalOfSnapshot ==
    pc = "sleep" =>
        progress.temp_total =
            (IF mug.temp_unit = Member("C", 0)
             THEN mug.target_temp.temp.c
             ELSE mug.target_temp.temp.f)

\* C14: when an iteration is over, state is the liquid_state of its
\* snapshot; every transition logged has old # new, and the old state of
\* each is the new state of the one logged before it.
C14_Tracker ==
    /\ pc = "sleep" => (state = mug.liquid_state /\ state = fed[Len(fed)])
    /\ \A i \in 1 .. Len(Events) : Events[i].old # Events[i].new
    /\ \A i \in 2 .. Len(Events) : Events[i].old = Events[i - 1].new

\* the states have gone back and forth, with no order imposed on them:
\* Cooling, Stable, Heating, Stable, Cooling
C14_Witness ==
    /\ pc = "sleep"
    /\ fed = <<Cooling, Stable, Heating, Stable, Cooling>>
    /\ state = Cooling
    /\ Events = <<Transition(None, Cooling), Transition(Cooling, Stable),
                  Transition(Stable, Heating), Transition(Heating, Stable),
                  Transition(Stable, Cooling)>>

\* C15: state is None when the first iteration of the loop starts, though
\* a snapshot has been read before the loop, so the first iteration logs
\* exactly one transition, from None to the state it has read.
C15_FirstCycle ==
    /\ (fed = <<>> /\ pc \in {"get_mug", "body"} /\ cycle >= 1) =>
           (state = None /\ mug # None /\ Events = <<>>)
    /\ Len(fed) >= 1 =>
           (Len(Events) >= 1 /\ Events[1] = Transition(None, fed[1]))
    /\ Len(fed) = 1 => Len(Events) = 1

\* the snapshot read before the loop and the first one of the loop are
\* both Heating, and None -> Heating has been logged
C15_Witness ==
    /\ pc = "sleep"
    /\ Len(log) >= 1
    /\ log[1].kind = "mug"
    /\ log[1].mug.liquid_state = Heating
    /\ fed = <<Heating>>
    /\ Events = <<Transition(None, Heating)>>

(***************************************************************************)
(* Properties of the codecs, under SpecDecode.                             *)
(***************************************************************************)
HasDecoded == dec_out # Pending

\* C9: the temperature decoders raise on an input that is not two bytes
\* long, the liquid-state decoder on a byte outside 1..6, the temp-unit
\* decoder on a byte outside {0, 1}.
C9_RejectsMalformed ==
    HasDecoded =>
        /\ (dec_key \in {"current-temp", "target-temp"} /\ Len(dec_in) # 2)
              => IsRaised(dec_out)
        /\ (dec_key = "liquid-state" /\ Len(dec_in) >= 1 /\ dec_in[1] \notin 1 .. 6)
              => IsRaised(dec_out)
        /\ (dec_key = "temp-unit" /\ Len(dec_in) >= 1 /\ dec_in[1] \notin {0, 1})
              => IsRaised(dec_out)

\* the liquid-state decoder has been given the byte 7 and has raised
C9_Witness ==
    /\ dec_key = "liquid-state"
    /\ dec_in = <<7>>
    /\ dec_out = Raised("ValueError")

\* C10: the temperature decoded from the bytes b0, b1 has 100 * c = r and
\* 1000 * f = 18 * r + 32000 for r = b0 + 256 * b1, less 65536 when
\* b1 >= 128 (c and f are kept in thousandths of a degree).
C10_TempDecode ==
    (HasDecoded /\ dec_key \in {"current-temp", "target-temp"} /\ Len(dec_in) = 2) =>
        LET r == dec_in[1] + 256 * dec_in[2]
                    - (IF dec_in[2] >= 128 THEN 65536 ELSE 0)
        IN  /\ dec_out.ok
            /\ dec_out.val.temp.c = 10 * r
            /\ dec_out.val.temp.f = 18 * r + 32000
            /\ 10 * dec_out.val.temp.f = 18 * dec_out.val.temp.c + 320000

\* bytes with the high bit set have been decoded to -10.00 C, 14.00 F
C10_Witness ==
    /\ dec_key = "current-temp"
    /\ dec_in = <<24, 252>>
    /\ dec_out = Return(CurrentTemp(Temp(-10000, 14000)))

\* C18: the battery decoded from two bytes has percent = byte 0 and
\* charging exactly when byte 1 is not 0, and its percent is within 0..100.
C18_BatteryRange ==
    (HasDecoded /\ dec_key = "battery" /\ Len(dec_in) = 2) =>
        /\ dec_out.ok
        /\ dec_out.val.percent = dec_in[1]
        /\ dec_out.val.charging = (dec_in[2] # 0)
        /\ dec_out.val.percent \in 0 .. 100

(***************************************************************************)
(* Properties of the way the program ends, under Spec.                     *)
(***************************************************************************)
\* C11: once a KeyboardInterrupt has arrived main only leaves its with
\* blocks and ends, so no further cycle starts; the program never ends
\* with the connection still held; and an interrupted program ends with
\* status 0.
C11_InterruptReleases ==
    /\ interrupted => pc \in {"unwind", "shutdown", "exited"}
    /\ pc = "exited" => ~connected
    /\ (pc = "exited" /\ interrupted) => exit_status = ExitStatus(0)

\* an interrupt during the sleep of the first iteration has ended the
\* program, after the connection had been used
C11_Witness ==
    /\ pc = "exited"
    /\ interrupted
    /\ bodies = 2
    /\ cycle = 1
    /\ Failed = {}
    /\ ~connected
    /\ exit_status = ExitStatus(0)

\* line 22 has logged that the mug was not found
NotFound == \E i \in 1 .. Len(log) : log[i].kind = "not found"

\* C12: nothing is connected or read before the scan is over, and when the
\* scan finds no device the program has ended with status 1, with no
\* connection, no task, no read and no snapshot processed.
C12_DiscoveryFailure ==
    /\ pc = "find_device" =>
          /\ ~connected
          /\ \A i \in Tasks : task_st[i] = "none"
          /\ cycle = 0 /\ bodies = 0
    /\ NotFound =>
          /\ pc = "exited"
          /\ exit_status = ExitStatus(1)
          /\ ~connected
          /\ \A i \in Tasks : task_st[i] = "none"
          /\ issued = <<>> /\ inflight = {}
          /\ cycle = 0 /\ bodies = 0
          /\ mug = None

\* the scan has found nothing and the program has ended
C12_Witness == NotFound /\ pc = "exited" /\ exit_status = ExitStatus(1)

(***************************************************************************)
(* The loop goes on, under SpecFair.                                       *)
(***************************************************************************)
\* C13: main leaves the loop only after a task has raised or an interrupt
\* has arrived (or, before the loop, when the scan found nothing); after
\* every iteration the sleep can end whatever state was observed; and every
\* completed iteration short of the last one explored is followed by the
\* start of the next assembly, unless an interrupt arrives.
C13_LoopGoesOn ==
    /\ [](pc \in {"unwind", "shutdown", "exited"}
             => (Failed # {} \/ interrupted \/ NotFound))
    /\ []((pc = "sleep" /\ cycle < MaxCycles) => ENABLED Sleep)
    /\ \A n \in 1 .. MaxCycles - 1 :
          (pc = "sleep" /\ cycle = n)
              ~> ((pc = "gather" /\ cycle = n + 1) \/ interrupted)

\* after an iteration that saw the mug filling, the next one has started
C13_Witness ==
    /\ pc = "gather"
    /\ cycle = 2
    /\ fed = <<Member("Filling", 2)>>
    /\ ~interrupted

(***************************************************************************)
(* The reads and the connection, under Spec.                               *)
(***************************************************************************)
\* C16: once main has left get_mug for the release of the connection, and
\* ever after, no read of a characteristic is outstanding.
C16_NoReadOutlives ==
    (pc \in {"unwind", "shutdown", "exited"} \/ ~connected) => inflight = {}

\* the uuids read so far by the tasks of the current assembly, no two alike
IssuedOnce == \A a, b \in 1 .. Len(issued) : a # b => issued[a] # issued[b]

\* C17: the reads of an assembly are issued one per key, each with the uuid
\* registered for its key, and never more than eight; the eight uuids of
\* the registry are pairwise distinct; the bytes kept for a key are an
\* answer to the read of that key's uuid, and what a task hands back is
\* the decoder registered under its key applied to those bytes; an
\* assembly that returns has issued all eight reads.
C17_OneReadPerKey ==
    /\ Len(issued) <= NKeys
    /\ IssuedOnce
    /\ \A j \in 1 .. Len(issued) : issued[j] = CHARACTERISTICS[KEYS[j]].uuid
    /\ \A i \in Tasks :
          /\ task_st[i] \in {"reading", "done", "failed"} => i <= Len(issued)
          /\ task_st[i] = "created" => i > Len(issued)
          /\ task_st[i] = "reading" <=>
                 <<cycle, CHARACTERISTICS[KEYS[i]].uuid>> \in inflight
    /\ \A k1, k2 \in Keys :
          k1 # k2 => CHARACTERISTICS[k1].uuid # CHARACTERISTICS[k2].uuid
    /\ \A i \in Tasks :
          task_st[i] = "done" =>
              /\ raw[KEYS[i]] \in Wire(CHARACTERISTICS[KEYS[i]].uuid)
              /\ attrs[i] = Apply(CHARACTERISTICS[KEYS[i]].decoder, raw[KEYS[i]])
    /\ Returned => Len(issued) = NKeys

\* a second assembly has returned after issuing its eight reads
C17_Witness ==
    /\ pc = "body"
    /\ cycle = 2
    /\ Len(issued) = NKeys
    /\ \A i \in Tasks : task_st[i] = "done"

(***************************************************************************)
(* What the loop does with each state, under Spec.                         *)
(***************************************************************************)
IsDump(e) == e.kind = "mug"

\* the snapshots logged so far
Dumps == SelectSeq(log, IsDump)

Quiet ==
    {Member("Empty", 1), Member("Heating", 5), Member("Cooling", 4),
     Member("Stable", 6)}

\* the iterations so far whose snapshot was in none of the quiet states
Loud == {j \in 1 .. Len(fed) : fed[j] \notin Quiet}

\* C19: an iteration whose liquid_state is Empty, Heating, Cooling or
\* Stable logs nothing but a transition; an iteration whose liquid_state is
\* Filling or Unknown logs its snapshot as well, every time and not only
\* when the state has changed.  The last conjunct puts each of the six
\* states in the place of the one the snapshot holds.
C19_Dispatch ==
    /\ Len(Dumps) = (IF bodies >= 1 THEN 1 ELSE 0) + Cardinality(Loud)
    /\ Len(log) = Len(Dumps) + Len(Events) + (IF NotFound THEN 1 ELSE 0)
    /\ (pc = "sleep" /\ mug.liquid_state \notin Quiet) =>
           log[Len(log)] = [kind |-> "mug", mug |-> mug]
    /\ (pc = "sleep" /\ mug.liquid_state \in Quiet) =>
           log[Len(log)].kind = "transition"
    /\ mug # None =>
           \A s \in LiquidState :
               LET m == [mug EXCEPT !.liquid_state = s]
               IN  DispatchLines(m) =
                       IF s \in {Member("Filling", 2), Member("Unknown", 3)}
                       THEN <<[kind |-> "mug", mug |-> m]>>
                       ELSE <<>>

\* the mug was Filling in two iterations in a row: one transition, and
\* the snapshot logged in both
C19_Witness ==
    /\ pc = "sleep"
    /\ fed = <<Member("Filling", 2), Member("Filling", 2)>>
    /\ Len(Events) = 1
    /\ Len(Dumps) = 3

====
